---- MODULE Spec2Model ----
(***************************************************************************)
(* Meridian Solitaire snapshot generator: the card/state model, the rule   *)
(* validator, the move generator, the state transition (_apply_move) and   *)
(* the bounded breadth-first solver, as state machines over the full       *)
(* 52-card deck.                                                           *)
(***************************************************************************)
EXTENDS Integers, Sequences, FiniteSets, TLC

(***************************************************************************)
(* Python helpers: None, list slices, flattening of nested loops.          *)
(***************************************************************************)
None == [rank |-> "None", suit |-> "None"]
NA == [rank |-> "N/A", suit |-> "N/A"]

Max(a, b) == IF a >= b THEN a ELSE b
Min(a, b) == IF a <= b THEN a ELSE b

Last(seq) == seq[Len(seq)]
\* seq[-k:] for k > 0 (the whole list when k >= len(seq))
LastN(seq, k) == SubSeq(seq, Max(1, Len(seq) - k + 1), Len(seq))
\* seq[:-k] for k >= 0, as k successive pop() calls that stop on an empty list
DropLast(seq, k) == SubSeq(seq, 1, Max(0, Len(seq) - k))

RECURSIVE Flatten(_)
Flatten(ss) == IF ss = <<>> THEN <<>> ELSE Head(ss) \o Flatten(Tail(ss))

RECURSIVE SumLen(_)
SumLen(ss) == IF ss = <<>> THEN 0 ELSE Len(Head(ss)) + SumLen(Tail(ss))

RECURSIVE Join(_, _)
Join(strs, sep) ==
    IF strs = <<>> THEN ""
    ELSE IF Len(strs) = 1 THEN Head(strs)
    ELSE Head(strs) \o sep \o Join(Tail(strs), sep)

(***************************************************************************)
(* Card (game_state.py)                                                    *)
(***************************************************************************)
ranks == <<"A", "2", "3", "4", "5", "6", "7", "8", "9", "10", "J", "Q", "K">>
suits == <<"h", "d", "c", "s">>
Cols == 0..6

Card(r, s) == [rank |-> r, suit |-> s]
deck == {Card(ranks[i], suits[j]) : i \in 1..13, j \in 1..4}

card_str(card) == card.rank \o card.suit
color(card) == IF card.suit \in {"h", "d"} THEN "red" ELSE "black"
\* RANKS.index(rank) + 1
rank_index ==
    [r \in {ranks[i] : i \in 1..13} |-> CHOOSE i \in 1..13 : ranks[i] = r]

numeric_rank(card) == rank_index[card.rank]

\* a pocket value that is a Card: Python's "pocket_card and pocket_card != 'N/A'"
is_card(p) == p # None /\ p # NA

(***************************************************************************)
(* MoveValidator (moves.py)                                                *)
(***************************************************************************)
\* fault: the suit of the pile is not compared
place_on_foundation_any_suit(card, foundation_type, foundation_pile) ==
    IF foundation_type = "up"
    THEN IF foundation_pile = <<>> THEN card.rank = "7"
         ELSE numeric_rank(card) = numeric_rank(Last(foundation_pile)) + 1
    ELSE IF foundation_pile = <<>> THEN card.rank = "6"
         ELSE numeric_rank(card) = numeric_rank(Last(foundation_pile)) - 1

can_place_on_foundation(card, foundation_type, foundation_pile) ==
    IF foundation_pile # <<>> /\ Last(foundation_pile).suit # card.suit THEN FALSE
    ELSE IF foundation_type = "up"
         THEN IF foundation_pile = <<>> THEN card.rank = "7"
              ELSE numeric_rank(card) = numeric_rank(Last(foundation_pile)) + 1
         ELSE IF foundation_pile = <<>> THEN card.rank = "6"
              ELSE numeric_rank(card) = numeric_rank(Last(foundation_pile)) - 1

\* fault: a king column refuses every card
place_on_tableau_by_column_type(card, target_card, target_column_empty, column_type) ==
    IF target_column_empty THEN card.rank \in {"A", "K"}
    ELSE IF target_card = None THEN FALSE
    ELSE IF color(card) = color(target_card) THEN FALSE
    ELSE IF numeric_rank(card) # numeric_rank(target_card) - 1 THEN FALSE
    ELSE column_type # "king"

can_place_on_tableau(card, target_card, target_column_empty, column_type) ==
    IF target_column_empty THEN card.rank \in {"A", "K"}
    ELSE IF target_card = None THEN FALSE
    ELSE IF color(card) = color(target_card) THEN FALSE
    ELSE IF numeric_rank(card) # numeric_rank(target_card) - 1 THEN FALSE
    ELSE TRUE

RECURSIVE sequence_is_run(_, _)
sequence_is_run(sequence, i) ==
    IF i > Len(sequence) THEN TRUE
    ELSE IF ~can_place_on_tableau(sequence[i], sequence[i - 1], FALSE, "None") THEN FALSE
    ELSE sequence_is_run(sequence, i + 1)

\* fault: only the first card of the sequence is checked
place_sequence_by_first_card(sequence, target_card, target_column_empty) ==
    IF sequence = <<>> THEN FALSE
    ELSE can_place_on_tableau(sequence[1], target_card, target_column_empty, "None")

can_place_sequence_on_tableau(sequence, target_card, target_column_empty) ==
    IF sequence = <<>> THEN FALSE
    ELSE IF ~can_place_on_tableau(sequence[1], target_card, target_column_empty, "None")
         THEN FALSE
    ELSE sequence_is_run(sequence, 2)

\* fault: the type is read from the top card of the column
column_type_of_top_card(column) ==
    IF column = <<>> THEN "None"
    ELSE IF Last(column).rank = "K" THEN "king"
    ELSE IF Last(column).rank = "A" THEN "ace"
    ELSE "traditional"

get_column_type(column) ==
    IF column = <<>> THEN "None"
    ELSE IF column[1].rank = "K" THEN "king"
    ELSE IF column[1].rank = "A" THEN "ace"
    ELSE "traditional"

(***************************************************************************)
(* Move and MoveGenerator (moves.py).  A move list is a sequence in the    *)
(* order the nested loops of the generator append to it.                   *)
(***************************************************************************)
Move(move_type, source, target, cards) ==
    [move_type |-> move_type, source |-> source, target |-> target, cards |-> cards]

\* for foundation_type in ['up', 'down']: for suit in 'hdcs'
foundation_targets ==
    << <<"up", "h">>, <<"up", "d">>, <<"up", "c">>, <<"up", "s">>,
       <<"down", "h">>, <<"down", "d">>, <<"down", "c">>, <<"down", "s">> >>

col_order == <<0, 1, 2, 3, 4, 5, 6>>

foundation_moves_from(state, source, card) ==
    LET ok(t) == can_place_on_foundation(card, t[1], state.foundations[t[1]][t[2]])
        hits == SelectSeq(foundation_targets, ok)
    IN  [i \in 1..Len(hits) |->
            Move("to_foundation", source,
                 [type |-> "foundation", foundation_type |-> hits[i][1], suit |-> hits[i][2]],
                 <<card>>)]

\* the face-up cards of a column: col[-face_up_count:] if face_up_count > 0 else []
face_up_cards(state, col_idx) ==
    LET col == state.tableau[col_idx]
        face_up_count == state.column_state.faceUpCounts[col_idx]
    IN  IF face_up_count > 0 THEN LastN(col, face_up_count) ELSE <<>>

_generate_foundation_moves(state) ==
    LET from_waste ==
            IF state.waste # <<>>
            THEN foundation_moves_from(state, [type |-> "waste"], Last(state.waste))
            ELSE <<>>
        from_pocket(pocket_num, pocket_card) ==
            IF is_card(pocket_card)
            THEN foundation_moves_from(state, [type |-> "pocket", pocket_num |-> pocket_num],
                                       pocket_card)
            ELSE <<>>
        from_column(col_idx) ==
            IF state.tableau[col_idx] # <<>> /\ face_up_cards(state, col_idx) # <<>>
            THEN foundation_moves_from(state, [type |-> "tableau", column |-> col_idx],
                                       Last(face_up_cards(state, col_idx)))
            ELSE <<>>
    IN  from_waste \o from_pocket(1, state.pocket1) \o from_pocket(2, state.pocket2)
        \o Flatten([i \in 1..7 |-> from_column(col_order[i])])

\* the columns, in range(7) order, that accept a sequence taken from src_idx
sequence_targets(state, sequence, src_idx) ==
    LET ok(tgt_idx) ==
            /\ src_idx # tgt_idx
            /\ LET tgt_col == state.tableau[tgt_idx]
                   tgt_card == IF tgt_col # <<>> THEN Last(tgt_col) ELSE None
               IN  can_place_sequence_on_tableau(sequence, tgt_card, Len(tgt_col) = 0)
    IN  SelectSeq(col_order, ok)

\* fault: a card from the waste or a pocket is offered to every column
card_targets_any_column(state, card) == col_order

\* the columns, in range(7) order, that accept one card from the waste or a pocket
card_targets(state, card) ==
    LET ok(tgt_idx) ==
            LET tgt_col == state.tableau[tgt_idx]
                tgt_card == IF tgt_col # <<>> THEN Last(tgt_col) ELSE None
            IN  can_place_on_tableau(card, tgt_card, Len(tgt_col) = 0, "None")
    IN  SelectSeq(col_order, ok)

_generate_tableau_moves(state) ==
    LET from_seq(src_idx, sequence) ==
            LET hits == sequence_targets(state, sequence, src_idx)
            IN  [i \in 1..Len(hits) |->
                    Move("to_tableau", [type |-> "tableau", column |-> src_idx],
                         [type |-> "tableau", column |-> hits[i]], sequence)]
        from_column(src_idx) ==
            LET up == face_up_cards(state, src_idx)
            IN  IF state.tableau[src_idx] = <<>> \/ up = <<>> THEN <<>>
                ELSE Flatten([seq_length \in 1..Len(up) |->
                                from_seq(src_idx, LastN(up, seq_length))])
        from_waste ==
            IF state.waste = <<>> THEN <<>>
            ELSE LET waste_card == Last(state.waste)
                     hits == card_targets(state, waste_card)
                 IN  [i \in 1..Len(hits) |->
                        Move("to_tableau", [type |-> "waste"],
                             [type |-> "tableau", column |-> hits[i]], <<waste_card>>)]
    IN  Flatten([i \in 1..7 |-> from_column(col_order[i])]) \o from_waste

\* fault: a card is offered to a pocket whatever the pocket holds
pocket_moves_over_any_slot(state) ==
    LET to_pocket(pocket_num) ==
            IF state.waste # <<>>
            THEN << Move("to_pocket", [type |-> "waste"],
                         [type |-> "pocket", pocket_num |-> pocket_num],
                         <<Last(state.waste)>>) >>
            ELSE <<>>
    IN  to_pocket(1) \o to_pocket(2)

_generate_pocket_moves(state) ==
    LET to_pocket(pocket_num, pocket) ==
            IF state.waste # <<>> /\ pocket = None
            THEN << Move("to_pocket", [type |-> "waste"],
                         [type |-> "pocket", pocket_num |-> pocket_num],
                         <<Last(state.waste)>>) >>
            ELSE <<>>
        from_pocket(pocket_num, pocket_card) ==
            IF ~is_card(pocket_card) THEN <<>>
            ELSE LET hits == card_targets(state, pocket_card)
                 IN  [i \in 1..Len(hits) |->
                        Move("from_pocket", [type |-> "pocket", pocket_num |-> pocket_num],
                             [type |-> "tableau", column |-> hits[i]], <<pocket_card>>)]
    IN  to_pocket(1, state.pocket1) \o to_pocket(2, state.pocket2)
        \o from_pocket(1, state.pocket1) \o from_pocket(2, state.pocket2)

\* fault: a waste of one card is offered for recycling
stock_moves_recycling_one_card(state) ==
    IF state.stock # <<>>
    THEN << Move("draw_stock", [type |-> "stock"], [type |-> "waste"], <<>>) >>
    ELSE IF state.waste # <<>>
    THEN << Move("recycle_waste", [type |-> "waste"], [type |-> "stock"], <<>>) >>
    ELSE <<>>

_generate_stock_moves(state) ==
    IF state.stock # <<>>
    THEN << Move("draw_stock", [type |-> "stock"], [type |-> "waste"], <<>>) >>
    ELSE IF state.waste # <<>> /\ Len(state.waste) > 1
    THEN << Move("recycle_waste", [type |-> "waste"], [type |-> "stock"], <<>>) >>
    ELSE <<>>

generate_all_moves(state) ==
    _generate_foundation_moves(state) \o _generate_tableau_moves(state)
    \o _generate_pocket_moves(state) \o _generate_stock_moves(state)

(***************************************************************************)
(* GameState.get_fingerprint (game_state.py).  Python's hash() of the      *)
(* tableau string is modelled as collision-free: the string itself.        *)
(***************************************************************************)
py_hash(str) == str

tableau_str(state) ==
    Join([i \in 1..7 |->
            LET col == state.tableau[col_order[i]]
            IN  Join([k \in 1..Len(col) |-> card_str(col[k])], ",")], "|")

foundation_count(state) ==
    SumLen([i \in 1..8 |->
              state.foundations[foundation_targets[i][1]][foundation_targets[i][2]]])

\* fault: the face-up counts are part of the fingerprint
fingerprint_with_face_counts(state) ==
    << py_hash(tableau_str(state)),
       IF state.stock # <<>> THEN card_str(state.stock[1]) ELSE "empty",
       IF state.waste # <<>> THEN card_str(Last(state.waste)) ELSE "empty",
       state.column_state.faceUpCounts >>

get_fingerprint(state) ==
    << py_hash(tableau_str(state)),
       IF state.stock # <<>> THEN card_str(state.stock[1]) ELSE "empty",
       IF state.waste # <<>> THEN card_str(Last(state.waste)) ELSE "empty",
       foundation_count(state) >>

(***************************************************************************)
(* Solver: win test and state transition (solver.py)                       *)
(***************************************************************************)
TotalCards == 52

\* fault: the win test asks for more cards than the deck holds
is_won_beyond_deck(state) == foundation_count(state) > TotalCards

_is_won(state) == foundation_count(state) = TotalCards

_reveal_card_if_needed(state, col_idx) ==
    LET col == state.tableau[col_idx]
        face_up_count == state.column_state.faceUpCounts[col_idx]
        face_down_count == state.column_state.faceDownCounts[col_idx]
    IN  IF col # <<>> /\ face_down_count > 0
        THEN [state EXCEPT
                !.column_state.faceUpCounts[col_idx] = Min(face_up_count + 1, Len(col)),
                !.column_state.faceDownCounts[col_idx] = Max(0, face_down_count - 1)]
        ELSE state

_apply_foundation_move(state, move) ==
    LET card == move.cards[1]
        foundation_type == move.target.foundation_type
        suit == move.target.suit
        source_type == move.source.type
        removed ==
            IF source_type = "tableau"
            THEN LET col_idx == move.source.column
                     col == state.tableau[col_idx]
                 IN  IF col # <<>> /\ Last(col) = card
                     THEN _reveal_card_if_needed(
                              [state EXCEPT !.tableau[col_idx] = DropLast(col, 1)], col_idx)
                     ELSE state
            ELSE IF source_type = "waste"
            THEN IF state.waste # <<>> /\ Last(state.waste) = card
                 THEN [state EXCEPT !.waste = DropLast(@, 1)]
                 ELSE state
            ELSE IF source_type = "pocket"
            THEN IF move.source.pocket_num = 1 /\ state.pocket1 = card
                 THEN [state EXCEPT !.pocket1 = None]
                 ELSE IF move.source.pocket_num = 2 /\ state.pocket2 = card
                 THEN [state EXCEPT !.pocket2 = None]
                 ELSE state
            ELSE state
    IN  [removed EXCEPT !.foundations[foundation_type][suit] = Append(@, card)]

\* column type written when a move lands on a column that was empty
type_of_first(card) ==
    IF card.rank = "K" THEN "king" ELSE IF card.rank = "A" THEN "ace" ELSE "traditional"

_apply_tableau_move(state, move) ==
    LET cards == move.cards
        target_col_idx == move.target.column
        source_type == move.source.type
        removed ==
            IF source_type = "tableau"
            THEN LET source_col_idx == move.source.column
                 IN  _reveal_card_if_needed(
                         [state EXCEPT !.tableau[source_col_idx] = DropLast(@, Len(cards))],
                         source_col_idx)
            ELSE IF source_type = "waste"
            THEN [state EXCEPT !.waste = DropLast(@, 1)]
            ELSE IF source_type = "pocket"
            THEN IF move.source.pocket_num = 1 THEN [state EXCEPT !.pocket1 = None]
                 ELSE IF move.source.pocket_num = 2 THEN [state EXCEPT !.pocket2 = None]
                 ELSE state
            ELSE state
        added == [removed EXCEPT !.tableau[target_col_idx] = @ \o cards]
    IN  IF Len(added.tableau[target_col_idx]) = Len(cards)
        THEN [added EXCEPT !.column_state.types[target_col_idx] = type_of_first(cards[1])]
        ELSE added

\* fault: the card is copied to the pocket and stays on the waste
to_pocket_keeping_waste(state, move) ==
    IF move.target.pocket_num = 1 THEN [state EXCEPT !.pocket1 = move.cards[1]]
    ELSE IF move.target.pocket_num = 2 THEN [state EXCEPT !.pocket2 = move.cards[1]]
    ELSE state

_apply_to_pocket_move(state, move) ==
    LET card == move.cards[1]
        pocket_num == move.target.pocket_num
        removed == [state EXCEPT !.waste = DropLast(@, 1)]
    IN  IF pocket_num = 1 THEN [removed EXCEPT !.pocket1 = card]
        ELSE IF pocket_num = 2 THEN [removed EXCEPT !.pocket2 = card]
        ELSE removed

\* fault: the pocket's card is put on the waste
from_pocket_onto_waste(state, move) ==
    LET card == move.cards[1]
        pocket_num == move.source.pocket_num
    IN  IF pocket_num = 1 /\ state.pocket1 = card
        THEN [state EXCEPT !.pocket1 = None, !.waste = Append(@, card)]
        ELSE IF pocket_num = 2 /\ state.pocket2 = card
        THEN [state EXCEPT !.pocket2 = None, !.waste = Append(@, card)]
        ELSE state

_apply_from_pocket_move(state, move) ==
    LET card == move.cards[1]
        pocket_num == move.source.pocket_num
        target_col_idx == move.target.column
        removed ==
            IF pocket_num = 1 /\ state.pocket1 = card THEN [state EXCEPT !.pocket1 = None]
            ELSE IF pocket_num = 2 /\ state.pocket2 = card THEN [state EXCEPT !.pocket2 = None]
            ELSE state
        added == [removed EXCEPT !.tableau[target_col_idx] = Append(@, card)]
    IN  IF Len(added.tableau[target_col_idx]) = 1
        THEN [added EXCEPT !.column_state.types[target_col_idx] = type_of_first(card)]
        ELSE added

_apply_draw_stock(state) ==
    IF state.stock # <<>>
    THEN [state EXCEPT !.stock = Tail(@), !.waste = Append(@, state.stock[1])]
    ELSE state

\* fault: the waste is turned over, its bottom card stays
recycle_keeping_bottom_card(state) ==
    IF state.waste # <<>>
    THEN [state EXCEPT !.waste = <<state.waste[1]>>, !.stock = Tail(state.waste) \o @]
    ELSE state

_apply_recycle_waste(state) ==
    IF state.waste # <<>>
    THEN LET cards == IF Len(state.waste) > 1 THEN DropLast(state.waste, 1) ELSE state.waste
         IN  [state EXCEPT !.waste = <<Last(state.waste)>>, !.stock = cards \o @]
    ELSE state

\* the moves on which the dispatch raises (IndexError on cards[0]) or matches no type
apply_raises(state, move) ==
    \/ move.move_type \in {"to_foundation", "to_pocket", "from_pocket"} /\ move.cards = <<>>
    \/ /\ move.move_type = "to_tableau"
       /\ move.cards = <<>>
       /\ Len(state.tableau[move.target.column]) = 0

\* Optional[GameState]: <<>> is None, <<s>> is the new state s
_apply_move(state, move) ==
    IF apply_raises(state, move) THEN <<>>
    ELSE IF move.move_type = "to_foundation" THEN <<_apply_foundation_move(state, move)>>
    ELSE IF move.move_type = "to_tableau" THEN <<_apply_tableau_move(state, move)>>
    ELSE IF move.move_type = "to_pocket" THEN <<_apply_to_pocket_move(state, move)>>
    ELSE IF move.move_type = "from_pocket" THEN <<_apply_from_pocket_move(state, move)>>
    ELSE IF move.move_type = "draw_stock" THEN <<_apply_draw_stock(state)>>
    ELSE IF move.move_type = "recycle_waste" THEN <<_apply_recycle_waste(state)>>
    ELSE <<>>

(***************************************************************************)
(* Initial states.  A layout places the cards that are not yet on a        *)
(* foundation; every other card lies on its suit's foundation run (up:     *)
(* 7, 8, ... ; down: 6, 5, ...), as in a game in progress.                 *)
(***************************************************************************)
C(r, s) == Card(r, s)

EmptyTableau == [c \in Cols |-> <<>>]

loose_cards(layout) ==
    UNION {{layout.tableau[c][k] : k \in 1..Len(layout.tableau[c])} : c \in Cols}
    \cup {layout.stock[k] : k \in 1..Len(layout.stock)}
    \cup {layout.waste[k] : k \in 1..Len(layout.waste)}
    \cup ({layout.pocket1, layout.pocket2} \ {None, NA})

\* the run of suit s that is on the foundation: up from 7, down from 6
run_up(s, loose) ==
    LET n == Cardinality({r \in 7..13 : \A q \in 7..r : Card(ranks[q], s) \notin loose})
    IN  [i \in 1..n |-> Card(ranks[6 + i], s)]

run_down(s, loose) ==
    LET n == Cardinality({r \in 1..6 : \A q \in r..6 : Card(ranks[q], s) \notin loose})
    IN  [i \in 1..n |-> Card(ranks[7 - i], s)]

SuitSet == {"h", "d", "c", "s"}

empty_foundations == [up |-> [s \in SuitSet |-> <<>>], down |-> [s \in SuitSet |-> <<>>]]

\* column_state as create_new_game leaves it: all_up deals count every card of
\* column i (i + 1 of them) face-up; hidden deals count one, over i face-down ones
deal_face_up(all_up) == [c \in Cols |-> IF all_up THEN c + 1 ELSE 1]

make_state(layout) ==
    [tableau |-> layout.tableau,
     stock |-> layout.stock,
     waste |-> layout.waste,
     pocket1 |-> layout.pocket1,
     pocket2 |-> layout.pocket2,
     foundations |->
        [up |-> [s \in SuitSet |-> run_up(s, loose_cards(layout))],
         down |-> [s \in SuitSet |-> run_down(s, loose_cards(layout))]],
     column_state |->
        [types |-> [c \in Cols |-> IF layout.tableau[c] = <<>> THEN "traditional"
                                   ELSE get_column_type(layout.tableau[c])],
         faceUpCounts |-> deal_face_up(layout.all_up),
         faceDownCounts |-> layout.face_down]]

Layout(tableau, stock, waste, pocket1, pocket2, all_up, face_down) ==
    [tableau |-> tableau, stock |-> stock, waste |-> waste, pocket1 |-> pocket1,
     pocket2 |-> pocket2, all_up |-> all_up, face_down |-> face_down]

NoFaceDown == [c \in Cols |-> 0]

\* every card on the foundations
WonLayout == Layout(EmptyTableau, <<>>, <<>>, None, NA, TRUE, NoFaceDown)

\* K in the stock, Q on the waste
DrawLayout ==
    Layout(EmptyTableau, <<C("K", "h")>>, <<C("Q", "h")>>, None, NA, TRUE, NoFaceDown)

\* Q over J of one suit: the J can never be reached
BlockedLayout ==
    Layout([EmptyTableau EXCEPT ![2] = <<C("J", "s"), C("Q", "s")>>],
           <<>>, <<C("K", "s")>>, None, NA, TRUE, NoFaceDown)

\* two pockets, an empty stock and a waste to recycle; four columns that can
\* never be undone (a J over the 10 of its suit)
RecycleLayout ==
    Layout([EmptyTableau EXCEPT
              ![2] = <<C("10", "s"), C("J", "s")>>,
              ![3] = <<C("10", "h"), C("K", "h"), C("Q", "h"), C("J", "h")>>,
              ![4] = <<C("10", "d"), C("K", "d"), C("Q", "d"), C("J", "d")>>,
              ![5] = <<C("10", "c"), C("K", "c"), C("Q", "c"), C("J", "c")>>],
           <<>>, <<C("K", "s"), C("Q", "s")>>, None, None, TRUE, NoFaceDown)

\* hidden deal: column 4 untouched (four face-down cards under the Q)
HiddenLayout ==
    Layout([EmptyTableau EXCEPT
              ![4] = <<C("Q", "h"), C("K", "s"), C("J", "s"), C("K", "h"), C("Q", "s")>>],
           <<>>, <<C("J", "h")>>, None, NA, FALSE, [NoFaceDown EXCEPT ![4] = 4])

\* the next card of the suit (the 10) at the bottom of a four-card waste
BuriedLayout ==
    Layout(EmptyTableau, <<>>, <<C("10", "h"), C("K", "h"), C("J", "h"), C("Q", "h")>>,
           None, NA, TRUE, NoFaceDown)

Layouts == {WonLayout, DrawLayout, BlockedLayout, RecycleLayout, HiddenLayout}

\* test_already_won_game: a fresh classic deal whose 28 tableau cards were all
\* appended to foundations['up']['h'] and whose stock and waste were emptied
TestAlreadyWonState ==
    [tableau |-> EmptyTableau, stock |-> <<>>, waste |-> <<>>,
     pocket1 |-> None, pocket2 |-> NA,
     foundations |->
        [empty_foundations EXCEPT
            !.up.h = [i \in 1..28 |-> Card(ranks[((i - 1) % 13) + 1], suits[((i - 1) \div 13) + 1])]],
     column_state |->
        [types |-> [c \in Cols |-> "traditional"],
         faceUpCounts |-> deal_face_up(TRUE),
         faceDownCounts |-> NoFaceDown]]

ValidStates == {make_state(layout) : layout \in Layouts}

SolveInputs == ValidStates \cup {TestAlreadyWonState}

PlayInputs == SolveInputs \cup {make_state(BuriedLayout)}

\* every card of the state, zone by zone, as one sequence
all_cards(state) ==
    Flatten([i \in 1..7 |-> state.tableau[col_order[i]]])
    \o state.stock \o state.waste
    \o (IF is_card(state.pocket1) THEN <<state.pocket1>> ELSE <<>>)
    \o (IF is_card(state.pocket2) THEN <<state.pocket2>> ELSE <<>>)
    \o Flatten([i \in 1..8 |->
                  state.foundations[foundation_targets[i][1]][foundation_targets[i][2]]])

\* the 52-unique-card invariant
holds_deck(state) ==
    /\ Len(all_cards(state)) = TotalCards
    /\ {all_cards(state)[i] : i \in 1..Len(all_cards(state))} = deck

(***************************************************************************)
(* State of the model.                                                     *)
(*   state          a game state reached from initial_state by applying    *)
(*                  generated moves (a player of the game)                 *)
(*   played         the number of those moves, counted only against a      *)
(*                  returned solution and in a game from a fresh deal      *)
(*   initial_state, max_nodes, max_time_ms   the arguments of solve        *)
(*   pc             "play" (no call), "deal" (no call, a game from a       *)
(*                  fresh deal), "start", "loop", "done"                   *)
(*   queue, visited, nodes_explored, dead_ends, max_depth   locals of      *)
(*                  solve; gone (reset) once it has returned               *)
(*   now            milliseconds since start_time                          *)
(*   result         <<>> or <<SolverResult>>                               *)
(*   exit           the return statement that produced result              *)
(*   prev           batch_generate: the discarded attempt before this one  *)
(*   heap           the GameState objects alive, by reference (1, 2, ...):  *)
(*                  the arguments and the returned states of direct calls   *)
(*   calls          the direct calls made so far, oldest first: function,   *)
(*                  arguments, returned value, and the value of the state   *)
(*                  argument before and after the call                      *)
(***************************************************************************)
VARIABLES state, played, initial_state, max_nodes, max_time_ms, pc, queue, visited,
          nodes_explored, dead_ends, max_depth, now, result, exit, prev, heap, calls,
          suspended

vars == <<state, played, initial_state, max_nodes, max_time_ms, pc, queue, visited,
          nodes_explored, dead_ends, max_depth, now, result, exit, prev, heap, calls,
          suspended>>

\* what a step of solve leaves alone: the objects and the call log of the
\* direct calls, and the locals of another invocation of solve
call_vars == <<heap, calls, suspended>>

solver_vars == <<initial_state, max_nodes, max_time_ms, pc, queue, visited,
                 nodes_explored, dead_ends, max_depth, now, result, exit, prev>>

\* Solver.__init__ defaults
DefaultMaxNodes == 10000
DefaultMaxTimeMs == 5000

\* bounds of the model: the small node budgets tried, and the clock's range
MaxSmallNodes == 3
MaxClock == 1

NodeBudgets == 1..MaxSmallNodes \cup {DefaultMaxNodes}
TimeBudgets == {0, DefaultMaxTimeMs}

SolverResult(winnable, solution, nodes, solve_time_ms, dead, depth) ==
    [winnable |-> winnable, solution |-> solution, nodes_explored |-> nodes,
     solve_time_ms |-> solve_time_ms, dead_ends |-> dead, max_depth |-> depth]

(***************************************************************************)
(* The game: one applied move of generate_all_moves per step.              *)
(***************************************************************************)
\* the states one generated move of the given type leads to
moved(move_type) ==
    LET moves == generate_all_moves(state)
        hits == SelectSeq(moves, LAMBDA move : move.move_type = move_type)
        applied == {_apply_move(state, hits[i]) : i \in 1..Len(hits)}
    IN  {new_state[1] : new_state \in applied \ {<<>>}}

Plays ==
    /\ pc \in {"play", "done", "deal"}
    /\ played' = IF pc = "deal" \/ (pc = "done" /\ result[1].winnable)
                 THEN played + 1 ELSE played
    /\ UNCHANGED <<solver_vars, call_vars>>

ToFoundation ==
    /\ state' \in moved("to_foundation")
    /\ Plays

ToTableau ==
    /\ state' \in moved("to_tableau")
    /\ Plays

ToPocket ==
    /\ state' \in moved("to_pocket")
    /\ Plays

FromPocket ==
    /\ state' \in moved("from_pocket")
    /\ Plays

DrawStock ==
    /\ state' \in moved("draw_stock")
    /\ Plays

RecycleWaste ==
    /\ state' \in moved("recycle_waste")
    /\ Plays

PlayNext == ToFoundation \/ ToTableau \/ ToPocket \/ FromPocket \/ DrawStock \/ RecycleWaste

(***************************************************************************)
(* Solver.solve: one step per loop iteration or return.                    *)
(***************************************************************************)
\* fault: the winning move is left out of the solution
solution_without_last(path, move) == path

\* solution = path + [move]
solution_path(path, move) == path \o <<move>>

\* the for loop over the moves of one dequeued state (solver.py 123-152), from
\* the i-th move on
RECURSIVE try_moves(_, _, _, _, _)
try_moves(current_state, path, moves, i, acc) ==
    IF i > Len(moves) THEN acc
    ELSE LET move == moves[i]
             new_state == _apply_move(current_state, move)
         IN  IF new_state = <<>> THEN try_moves(current_state, path, moves, i + 1, acc)
             ELSE IF _is_won(new_state[1])
             THEN [acc EXCEPT !.won = TRUE, !.solution = solution_path(path, move)]
             ELSE IF get_fingerprint(new_state[1]) \in acc.visited
             THEN try_moves(current_state, path, moves, i + 1, acc)
             ELSE try_moves(current_state, path, moves, i + 1,
                    [acc EXCEPT
                        !.visited = @ \cup {get_fingerprint(new_state[1])},
                        !.nodes_explored = @ + 1,
                        !.queue = Append(@, [state |-> new_state[1],
                                             path |-> path \o <<move>>])])

Return(res, how) ==
    /\ result' = <<res>>
    /\ exit' = how
    /\ pc' = "done"
    /\ queue' = <<>>
    /\ visited' = {}
    /\ nodes_explored' = 0
    /\ dead_ends' = 0
    /\ max_depth' = 0

\* lines 62-73
AlreadyWon ==
    /\ pc = "start"
    /\ _is_won(initial_state)
    /\ Return(SolverResult(TRUE, <<>>, 1, 0, 0, 0), "already_won")
    /\ UNCHANGED <<call_vars, state, played, initial_state, max_nodes, max_time_ms, now, prev>>

\* fault: the fingerprint of the start state is not recorded
SetupWithoutStart ==
    /\ pc = "start"
    /\ ~_is_won(initial_state)
    /\ queue' = <<[state |-> initial_state, path |-> <<>>]>>
    /\ visited' = {}
    /\ nodes_explored' = 1
    /\ dead_ends' = 0
    /\ max_depth' = 0
    /\ pc' = "loop"
    /\ now' \in now..MaxClock
    /\ UNCHANGED <<call_vars, state, played, initial_state, max_nodes, max_time_ms, result, exit, prev>>

\* lines 75-84
Setup ==
    /\ pc = "start"
    /\ ~_is_won(initial_state)
    /\ queue' = <<[state |-> initial_state, path |-> <<>>]>>
    /\ visited' = {get_fingerprint(initial_state)}
    /\ nodes_explored' = 1
    /\ dead_ends' = 0
    /\ max_depth' = 0
    /\ pc' = "loop"
    /\ now' \in now..MaxClock
    /\ UNCHANGED <<call_vars, state, played, initial_state, max_nodes, max_time_ms, result, exit, prev>>

\* lines 86-97
TimeLimit ==
    /\ pc = "loop"
    /\ queue # <<>>
    /\ now > max_time_ms
    /\ Return(SolverResult(FALSE, <<>>, nodes_explored, now, dead_ends, max_depth),
              "time_limit")
    /\ UNCHANGED <<call_vars, state, played, initial_state, max_nodes, max_time_ms, now, prev>>

\* fault: the node budget compared with > instead of >=
node_limit_passed(nodes, limit) == nodes > limit

node_limit_hit(nodes, limit) == nodes >= limit

\* lines 99-108
NodeLimit ==
    /\ pc = "loop"
    /\ queue # <<>>
    /\ ~(now > max_time_ms)
    /\ node_limit_hit(nodes_explored, max_nodes)
    /\ Return(SolverResult(FALSE, <<>>, nodes_explored, now, dead_ends, max_depth),
              "node_limit")
    /\ UNCHANGED <<call_vars, state, played, initial_state, max_nodes, max_time_ms, now, prev>>

\* the loop goes on to dequeue
Dequeues ==
    /\ pc = "loop"
    /\ queue # <<>>
    /\ ~(now > max_time_ms)
    /\ ~node_limit_hit(nodes_explored, max_nodes)

\* fault: pop() instead of popleft(): the newest entry leaves the queue
pop_newest(q) == DropLast(q, 1)

\* current_state, path = queue.popleft()
popleft(q) == Tail(q)

\* fault: a state without moves is dropped and not counted
DeadEndUncounted ==
    /\ Dequeues
    /\ generate_all_moves(Head(queue).state) = <<>>
    /\ queue' = popleft(queue)
    /\ max_depth' = Max(max_depth, Len(Head(queue).path))
    /\ now' \in now..MaxClock
    /\ UNCHANGED <<call_vars, state, played, initial_state, max_nodes, max_time_ms, pc, visited,
                   nodes_explored, dead_ends, result, exit, prev>>

\* lines 110-120
DeadEnd ==
    /\ Dequeues
    /\ generate_all_moves(Head(queue).state) = <<>>
    /\ queue' = popleft(queue)
    /\ max_depth' = Max(max_depth, Len(Head(queue).path))
    /\ dead_ends' = dead_ends + 1
    /\ now' \in now..MaxClock
    /\ UNCHANGED <<call_vars, state, played, initial_state, max_nodes, max_time_ms, pc, visited,
                   nodes_explored, result, exit, prev>>

\* one iteration on a state that has moves: its for loop, run to its end or
\* to the return inside it
expanded(current_state, path, moves) ==
    try_moves(current_state, path, moves, 1,
              [queue |-> popleft(queue), visited |-> visited,
               nodes_explored |-> nodes_explored, won |-> FALSE, solution |-> <<>>])

\* lines 110-152, no move of the state wins
Expand ==
    /\ Dequeues
    /\ \E moves \in {generate_all_moves(Head(queue).state)} :
          /\ moves # <<>>
          /\ \E done \in {expanded(Head(queue).state, Head(queue).path, moves)} :
                /\ ~done.won
                /\ queue' = done.queue
                /\ visited' = done.visited
                /\ nodes_explored' = done.nodes_explored
    /\ max_depth' = Max(max_depth, Len(Head(queue).path))
    /\ now' \in now..MaxClock
    /\ UNCHANGED <<call_vars, state, played, initial_state, max_nodes, max_time_ms, pc, dead_ends,
                   result, exit, prev>>

\* fault: the winning move is not counted in the depth
ExpandWinAtDequeuedDepth ==
    /\ Dequeues
    /\ now' \in now..MaxClock
    /\ \E moves \in {generate_all_moves(Head(queue).state)} :
          /\ moves # <<>>
          /\ \E done \in {expanded(Head(queue).state, Head(queue).path, moves)} :
                /\ done.won
                /\ Return(SolverResult(TRUE, done.solution, done.nodes_explored, now',
                                       dead_ends, Max(max_depth, Len(Head(queue).path))),
                          "won")
    /\ UNCHANGED <<call_vars, state, played, initial_state, max_nodes, max_time_ms, prev>>

\* lines 110-141, a move of the state wins
ExpandWin ==
    /\ Dequeues
    /\ now' \in now..MaxClock
    /\ \E moves \in {generate_all_moves(Head(queue).state)} :
          /\ moves # <<>>
          /\ \E done \in {expanded(Head(queue).state, Head(queue).path, moves)} :
                /\ done.won
                /\ Return(SolverResult(TRUE, done.solution, done.nodes_explored, now',
                                       dead_ends,
                                       Max(Max(max_depth, Len(Head(queue).path)),
                                           Len(Head(queue).path) + 1)),
                          "won")
    /\ UNCHANGED <<call_vars, state, played, initial_state, max_nodes, max_time_ms, prev>>

\* fault: the loop does not end when the queue is empty
ExhaustedLoopsOn ==
    /\ pc = "loop"
    /\ queue = <<>>
    /\ UNCHANGED vars

\* lines 154-163
Exhausted ==
    /\ pc = "loop"
    /\ queue = <<>>
    /\ Return(SolverResult(FALSE, <<>>, nodes_explored, now, dead_ends, max_depth),
              "exhausted")
    /\ UNCHANGED <<call_vars, state, played, initial_state, max_nodes, max_time_ms, now, prev>>

SolveNext ==
    AlreadyWon \/ Setup \/ TimeLimit \/ NodeLimit \/ DeadEnd \/ Expand \/ ExpandWin
    \/ Exhausted

\* batch_generate (cli.py 226-295): a result that is not winnable is discarded
\* and solve is called on the next deal with the same budgets
NextAttempt ==
    /\ pc = "done"
    /\ ~result[1].winnable
    /\ prev = <<>>
    /\ prev' = <<[result |-> result[1], exit |-> exit, initial_state |-> initial_state]>>
    /\ initial_state' \in SolveInputs
    /\ state' = initial_state'
    /\ pc' = "start"
    /\ now' = 0
    /\ result' = <<>>
    /\ exit' = "none"
    /\ UNCHANGED <<call_vars, played, max_nodes, max_time_ms, queue, visited, nodes_explored,
                   dead_ends, max_depth>>

(***************************************************************************)
(* Specifications                                                          *)
(***************************************************************************)
IdleSolver ==
    /\ queue = <<>>
    /\ visited = {}
    /\ nodes_explored = 0
    /\ dead_ends = 0
    /\ max_depth = 0
    /\ now = 0
    /\ result = <<>>
    /\ exit = "none"
    /\ prev = <<>>
    /\ played = 0
    /\ heap = <<>>
    /\ calls = <<>>
    /\ suspended = <<>>

\* the game alone, from every valid state
Init ==
    /\ initial_state \in ValidStates
    /\ state = initial_state
    /\ pc = "play"
    /\ max_nodes = DefaultMaxNodes
    /\ max_time_ms = DefaultMaxTimeMs
    /\ IdleSolver

Next == PlayNext

Spec == Init /\ [][Next]_vars

\* one call of solve, every budget
SolveInit ==
    /\ initial_state \in SolveInputs
    /\ state = initial_state
    /\ pc = "start"
    /\ max_nodes \in NodeBudgets
    /\ max_time_ms \in TimeBudgets
    /\ IdleSolver

SolveSpec == SolveInit /\ [][SolveNext]_vars

\* solve runs without suspending until it returns
LiveSpec == SolveSpec /\ WF_vars(SolveNext)

\* a call of solve with the default budgets, which no layout here exhausts, and
\* then the game played from the same initial state (no further than the length
\* of a returned solution)
PlayInit ==
    /\ initial_state \in PlayInputs
    /\ state = initial_state
    /\ pc = "start"
    /\ max_nodes = DefaultMaxNodes
    /\ max_time_ms = DefaultMaxTimeMs
    /\ IdleSolver

PlayAfter ==
    /\ pc = "done"
    /\ result[1].winnable => played < Len(result[1].solution)
    /\ PlayNext

SolvePlayNext ==
    AlreadyWon \/ Setup \/ DeadEnd \/ Expand \/ ExpandWin \/ Exhausted \/ PlayAfter

SolvePlaySpec == PlayInit /\ [][SolvePlayNext]_vars

\* the discard loop of batch_generate: two attempts with the same solver budgets
BatchNext == SolveNext \/ NextAttempt

BatchSpec == SolveInit /\ [][BatchNext]_vars

(***************************************************************************)
(* Two invocations of solve taking turns, one loop iteration at a time.     *)
(* The variables of the solver are the locals of the invocation that runs;  *)
(* suspended holds the locals of the other one.  Every invocation measures  *)
(* its elapsed time against the one wall clock: now is time.time() -        *)
(* start_time of the running invocation, and the time that passes during a  *)
(* turn passes for the suspended invocation too.                            *)
(***************************************************************************)
\* the locals of an invocation that has not executed its first statement
not_started(start) ==
    [initial_state |-> start, pc |-> "start", queue |-> <<>>, visited |-> {},
     nodes_explored |-> 0, dead_ends |-> 0, max_depth |-> 0, result |-> <<>>,
     exit |-> "none", elapsed |-> 0, at |-> 0]

\* solve has returned for initial_state on its own; the same Solver is now
\* called on it again, and on a separate state by a second caller
StartPair ==
    /\ pc = "done"
    /\ prev = <<>>
    /\ suspended = <<>>
    /\ prev' = <<[result |-> result[1], exit |-> exit, initial_state |-> initial_state]>>
    /\ \E other \in SolveInputs \ {initial_state} : suspended' = <<not_started(other)>>
    /\ pc' = "start"
    /\ now' = 0
    /\ result' = <<>>
    /\ exit' = "none"
    /\ UNCHANGED <<heap, calls, state, played, initial_state, max_nodes, max_time_ms, queue,
                   visited, nodes_explored, dead_ends, max_depth>>

\* the running invocation is suspended between two loop iterations (or after
\* its return) and the other one resumes; start_time = time.time() is the
\* first statement of an invocation that had not started
Yield ==
    /\ pc \in {"loop", "done"}
    /\ suspended # <<>>
    /\ suspended[1].pc # "done"
    /\ \E resumed \in {suspended[1]} :
          /\ now' = IF resumed.pc = "start" THEN 0 ELSE resumed.elapsed + (now - resumed.at)
          /\ now' <= MaxClock
          /\ suspended' = <<[initial_state |-> initial_state, pc |-> pc, queue |-> queue,
                             visited |-> visited, nodes_explored |-> nodes_explored,
                             dead_ends |-> dead_ends, max_depth |-> max_depth,
                             result |-> result, exit |-> exit, elapsed |-> now, at |-> now']>>
          /\ initial_state' = resumed.initial_state
          /\ state' = resumed.initial_state
          /\ pc' = resumed.pc
          /\ queue' = resumed.queue
          /\ visited' = resumed.visited
          /\ nodes_explored' = resumed.nodes_explored
          /\ dead_ends' = resumed.dead_ends
          /\ max_depth' = resumed.max_depth
          /\ result' = resumed.result
          /\ exit' = resumed.exit
    /\ UNCHANGED <<heap, calls, played, max_nodes, max_time_ms, prev>>

InterleaveNext == SolveNext \/ StartPair \/ Yield

InterleaveSpec == SolveInit /\ [][InterleaveNext]_vars

(***************************************************************************)
(* Direct calls of generate_all_moves and _apply_move on GameState objects. *)
(* An object is a reference into heap; copy.deepcopy makes a new object,    *)
(* the _apply_* methods change the object they are given in place.          *)
(***************************************************************************)
\* bound of the model: the number of direct calls in one behaviour
MaxCalls == 3

\* fault: the "copy" is the object itself
copy_state_by_reference(h, ref) == [heap |-> h, new_state |-> ref]

\* copy.deepcopy(state): a new object holding the value of the old one
_copy_state(h, ref) == [heap |-> Append(h, h[ref]), new_state |-> Len(h) + 1]

\* _apply_move on objects (solver.py 193-213): the copy, the change of the copy
\* in place, and the returned reference; 0 is None, and a copy that is not
\* returned is garbage
apply_move_to(h, ref, move) ==
    LET copied == _copy_state(h, ref)
        new_state == copied.new_state
        applied == _apply_move(copied.heap[new_state], move)
    IN  IF applied = <<>> THEN [heap |-> h, ret |-> 0]
        ELSE [heap |-> [copied.heap EXCEPT ![new_state] = applied[1]], ret |-> new_state]

\* moves whose cards list is empty although their type moves a card: the
\* dispatch raises on cards[0]
MalformedMoves ==
    { Move("to_foundation", [type |-> "waste"],
           [type |-> "foundation", foundation_type |-> "up", suit |-> "h"], <<>>),
      Move("to_tableau", [type |-> "waste"], [type |-> "tableau", column |-> 0], <<>>) }

\* the moves a caller holds: those generated from any object alive (from the
\* state at hand or from another one), and the malformed ones
candidate_moves(h) ==
    UNION {{generate_all_moves(h[r])[i] : i \in 1..Len(generate_all_moves(h[r]))} :
             r \in DOMAIN h}
    \cup MalformedMoves

Call(fn, ref, before, move, ret) ==
    [fn |-> fn, ref |-> ref, before |-> before, move |-> move, ret |-> ret]

\* fault: the generator recycles the waste of the state it enumerates
GenerateMovesRecycling ==
    /\ pc = "play"
    /\ Len(calls) < MaxCalls
    /\ \E ref \in DOMAIN heap :
          /\ heap' = [heap EXCEPT ![ref] = _apply_recycle_waste(@)]
          /\ calls' = Append(calls, Call("generate_all_moves", ref, heap[ref], <<>>,
                                         generate_all_moves(heap[ref])))
    /\ UNCHANGED <<state, played, solver_vars, suspended>>

\* MoveGenerator(state).generate_all_moves(): reads the state, writes nothing
GenerateMoves ==
    /\ pc = "play"
    /\ Len(calls) < MaxCalls
    /\ \E ref \in DOMAIN heap :
          /\ heap' = heap
          /\ calls' = Append(calls, Call("generate_all_moves", ref, heap[ref], <<>>,
                                         generate_all_moves(heap[ref])))
    /\ UNCHANGED <<state, played, solver_vars, suspended>>

\* Solver()._apply_move(state, move)
ApplyMove ==
    /\ pc = "play"
    /\ Len(calls) < MaxCalls
    /\ \E ref \in DOMAIN heap :
          \E move \in candidate_moves(heap) :
             \E done \in {apply_move_to(heap, ref, move)} :
                /\ heap' = done.heap
                /\ calls' = Append(calls, Call("_apply_move", ref, heap[ref], <<move>>,
                                               done.ret))
    /\ UNCHANGED <<state, played, solver_vars, suspended>>

TransitionInputs ==
    {make_state(DrawLayout), make_state(RecycleLayout), make_state(HiddenLayout)}

TransitionInit ==
    /\ initial_state \in TransitionInputs
    /\ state = initial_state
    /\ pc = "play"
    /\ max_nodes = DefaultMaxNodes
    /\ max_time_ms = DefaultMaxTimeMs
    /\ queue = <<>>
    /\ visited = {}
    /\ nodes_explored = 0
    /\ dead_ends = 0
    /\ max_depth = 0
    /\ now = 0
    /\ result = <<>>
    /\ exit = "none"
    /\ prev = <<>>
    /\ played = 0
    /\ heap = <<initial_state>>
    /\ calls = <<>>
    /\ suspended = <<>>

TransitionNext == GenerateMoves \/ ApplyMove

TransitionSpec == TransitionInit /\ [][TransitionNext]_vars

(***************************************************************************)
(* Direct calls of the MoveValidator predicates, one per behaviour, on      *)
(* every argument of the sets below.                                        *)
(***************************************************************************)
\* bound of the model: the length of the sequences passed to
\* can_place_sequence_on_tableau
MaxSeqLen == 3

\* the cards the sequences and the upper cards of columns are made of
RuleCards ==
    {C("K", "h"), C("Q", "s"), C("Q", "h"), C("J", "h"), C("J", "d"), C("A", "s")}

\* foundation piles: empty, any single card, and every prefix of a suit's run
Piles ==
    {<<>>} \cup {<<card>> : card \in deck}
    \cup {[i \in 1..n |-> Card(ranks[6 + i], su)] : n \in 2..7, su \in SuitSet}
    \cup {[i \in 1..n |-> Card(ranks[7 - i], su)] : n \in 2..6, su \in SuitSet}

Sequences == UNION {[1..n -> RuleCards] : n \in 0..MaxSeqLen}

\* columns: empty, one card, or any card under a second one
Columns ==
    {<<>>} \cup {<<card>> : card \in deck}
    \cup {<<card, above>> : card \in deck, above \in RuleCards}

ColumnTypes == {"None", "ace", "king", "traditional"}

RuleCall(fn, args, ret) == [fn |-> fn, args |-> args, ret |-> ret]

IdleGame == UNCHANGED <<state, played, solver_vars, heap, suspended>>

CallCanPlaceOnFoundation ==
    /\ calls = <<>>
    /\ \E card \in deck, foundation_type \in {"up", "down"}, foundation_pile \in Piles :
          calls' = <<RuleCall("can_place_on_foundation",
                              <<card, foundation_type, foundation_pile>>,
                              can_place_on_foundation(card, foundation_type, foundation_pile))>>
    /\ IdleGame

CallCanPlaceOnTableau ==
    /\ calls = <<>>
    /\ \E card \in deck, target_card \in deck \cup {None},
          target_column_empty \in BOOLEAN, column_type \in ColumnTypes :
          calls' = <<RuleCall("can_place_on_tableau",
                              <<card, target_card, target_column_empty, column_type>>,
                              can_place_on_tableau(card, target_card, target_column_empty,
                                                   column_type))>>
    /\ IdleGame

CallCanPlaceSequenceOnTableau ==
    /\ calls = <<>>
    /\ \E sequence \in Sequences, target_card \in RuleCards \cup {None},
          target_column_empty \in BOOLEAN :
          calls' = <<RuleCall("can_place_sequence_on_tableau",
                              <<sequence, target_card, target_column_empty>>,
                              can_place_sequence_on_tableau(sequence, target_card,
                                                            target_column_empty))>>
    /\ IdleGame

CallGetColumnType ==
    /\ calls = <<>>
    /\ \E column \in Columns :
          calls' = <<RuleCall("get_column_type", <<column>>, get_column_type(column))>>
    /\ IdleGame

RuleInit ==
    /\ initial_state = make_state(WonLayout)
    /\ state = initial_state
    /\ pc = "play"
    /\ max_nodes = DefaultMaxNodes
    /\ max_time_ms = DefaultMaxTimeMs
    /\ IdleSolver

RuleNext ==
    CallCanPlaceOnFoundation \/ CallCanPlaceOnTableau \/ CallCanPlaceSequenceOnTableau
    \/ CallGetColumnType

RuleSpec == RuleInit /\ [][RuleNext]_vars

(***************************************************************************)
(* Properties                                                              *)
(***************************************************************************)
\* the state is the finished game: every zone but the foundations is empty
AllOnFoundations(s) ==
    /\ foundation_count(s) = TotalCards
    /\ \A c \in Cols : s.tableau[c] = <<>>
    /\ s.stock = <<>>
    /\ s.waste = <<>>
    /\ ~is_card(s.pocket1)
    /\ ~is_card(s.pocket2)

\* tableau, stock and waste hold no card
EmptyBoard(s) ==
    /\ \A c \in Cols : s.tableau[c] = <<>>
    /\ s.stock = <<>>
    /\ s.waste = <<>>

\* the solution replayed one _apply_move at a time: every move is offered by
\* the generator in the state it is applied to, none is refused, and the last
\* state has the 52 cards on the foundations
RECURSIVE replays(_, _)
replays(s, solution) ==
    IF solution = <<>> THEN foundation_count(s) = TotalCards
    ELSE LET move == Head(solution)
             moves == generate_all_moves(s)
             new_state == _apply_move(s, move)
         IN  /\ \E i \in 1..Len(moves) : moves[i] = move
             /\ new_state # <<>>
             /\ replays(new_state[1], Tail(solution))

\* the zone contents of two states are identical
same_zones(s, t) ==
    /\ s.tableau = t.tableau
    /\ s.stock = t.stock
    /\ s.waste = t.waste
    /\ s.pocket1 = t.pocket1
    /\ s.pocket2 = t.pocket2
    /\ s.foundations = t.foundations

\* the call just made, in a step that makes one
called(fn) == Len(calls') = Len(calls) + 1 /\ Last(calls').fn = fn

\* C1: card conservation.  Every state reached from a state holding the 52
\* distinct cards by applying moves of generate_all_moves holds exactly the 52
\* distinct cards across tableau, stock, waste, pockets and foundations: none
\* duplicated, none lost.
C1_CardConservation == holds_deck(state)

\* a game played to its end
C1_Witness ==
    /\ pc = "play"
    /\ ~_is_won(initial_state)
    /\ _is_won(state)
    /\ holds_deck(state)

\* C2: when solve returns not winnable because the queue became empty (no
\* budget was hit), no won state is reachable from the initial state by
\* generated moves.
C2_ExhaustedMeansUnwinnable ==
    (pc = "done" /\ exit = "exhausted") => ~_is_won(state)

\* C3: when solve returns a solution of k moves, no sequence of fewer than k
\* generated moves leads from the initial state to a won state.
C3_ShortestSolution ==
    (pc = "done" /\ result[1].winnable /\ _is_won(state))
        => played >= Len(result[1].solution)

\* C4: a returned solution replays from the initial state: each move is a
\* member of generate_all_moves of the state it is applied to, each apply
\* succeeds, and the final state has all 52 cards on the foundations.
C4_SolutionValid ==
    (pc = "done" /\ result[1].winnable) => replays(initial_state, result[1].solution)

\* a solution of several moves was returned
C4_Witness ==
    /\ pc = "done"
    /\ exit = "won"
    /\ Len(result[1].solution) >= 3
    /\ replays(initial_state, result[1].solution)

\* C5: a result returned because a budget was exceeded is never equal, field
\* by field and under the same max_nodes and max_time_ms, to a result returned
\* because the queue was exhausted.
C5_NegativeOutcomesDiffer ==
    (/\ pc = "done"
     /\ prev # <<>>
     /\ prev[1].exit \in {"time_limit", "node_limit"}
     /\ exit = "exhausted")
        => prev[1].result # result[1]

\* C6: for a state with all 52 cards on the foundations and every other zone
\* empty, solve returns at once (no loop iteration, no move generated or
\* applied) winnable, with an empty solution, nodes_explored = 1,
\* dead_ends = 0 and max_depth = 0.
C6_AlreadyWon ==
    [][(pc = "start" /\ AllOnFoundations(initial_state))
          => /\ pc' = "done"
             /\ exit' = "already_won"
             /\ result' = <<SolverResult(TRUE, <<>>, 1, 0, 0, 0)>>]_vars

\* solve has returned on a finished game
C6_Witness ==
    /\ pc = "done"
    /\ AllOnFoundations(initial_state)
    /\ result = <<SolverResult(TRUE, <<>>, 1, 0, 0, 0)>>

\* C7: for a state whose tableau columns, stock and waste are all empty, solve
\* returns winnable with an empty solution.
C7_EmptyBoardIsWon ==
    (pc = "done" /\ EmptyBoard(initial_state))
        => (result[1].winnable /\ result[1].solution = <<>>)

\* C8: with max_nodes = 1 on a state that is not already won, solve returns
\* not winnable, an empty solution and nodes_explored <= 1, from one of the
\* two budget checks at the top of the loop (nothing dequeued or expanded).
C8_BudgetOfOne ==
    (pc = "done" /\ max_nodes = 1 /\ ~_is_won(initial_state))
        => /\ ~result[1].winnable
           /\ result[1].solution = <<>>
           /\ result[1].nodes_explored <= 1
           /\ result[1].dead_ends = 0
           /\ result[1].max_depth = 0
           /\ exit \in {"node_limit", "time_limit"}

\* the node budget of one stopped a state that has moves to offer
C8_Witness ==
    /\ pc = "done"
    /\ max_nodes = 1
    /\ exit = "node_limit"
    /\ generate_all_moves(initial_state) # <<>>
    /\ result[1].nodes_explored = 1

\* C9: the nodes_explored of every returned result is at most max_nodes.
C9_NodesWithinBudget ==
    pc = "done" => result[1].nodes_explored <= max_nodes

\* C10: solve eventually returns, whatever the state and the budgets.
C10_Terminates == <>(pc = "done")

\* a search that no budget stopped went through a recycle of the waste and
\* ended with the queue empty
C10_Witness ==
    /\ pc = "done"
    /\ exit = "exhausted"
    /\ max_nodes = DefaultMaxNodes
    /\ max_time_ms = DefaultMaxTimeMs
    /\ initial_state = make_state(RecycleLayout)
    /\ result[1].max_depth >= 2

\* C11: determinism of solve.  Two calls of solve on equal initial states with
\* the same max_nodes and max_time_ms return the same winnable flag, the same
\* solution and the same nodes_explored.
C11_SolveDeterministic ==
    (pc = "done" /\ prev # <<>> /\ prev[1].initial_state = initial_state)
        => /\ prev[1].result.winnable = result[1].winnable
           /\ prev[1].result.solution = result[1].solution
           /\ prev[1].result.nodes_explored = result[1].nodes_explored

\* C12: fingerprint determinism.  Two states with identical zone contents
\* (tableau columns, stock, waste, pockets, foundations), however they were
\* reached, have equal fingerprints.
C12_FingerprintDeterministic ==
    \A r1 \in DOMAIN heap : \A r2 \in DOMAIN heap :
        same_zones(heap[r1], heap[r2])
            => get_fingerprint(heap[r1]) = get_fingerprint(heap[r2])

\* two objects reached by different moves hold the same cards in the same
\* places (and differ in their face-up counts)
C12_Witness ==
    \E r1 \in DOMAIN heap : \E r2 \in DOMAIN heap :
        /\ r1 # r2
        /\ holds_deck(heap[r1])
        /\ holds_deck(heap[r2])
        /\ same_zones(heap[r1], heap[r2])
        /\ heap[r1].column_state # heap[r2].column_state
        /\ ~same_zones(heap[r1], heap[1])
        /\ get_fingerprint(heap[r1]) = get_fingerprint(heap[r2])

\* C13: fingerprint distinctness.  Two states (each holding the 52 cards) that
\* differ in the zone or the position of at least one card have different
\* fingerprints.
C13_FingerprintDistinct ==
    \A r1 \in DOMAIN heap : \A r2 \in DOMAIN heap :
        (holds_deck(heap[r1]) /\ holds_deck(heap[r2]) /\ ~same_zones(heap[r1], heap[r2]))
            => get_fingerprint(heap[r1]) # get_fingerprint(heap[r2])

C19_ApplyLeavesInput ==
    [][called("_apply_move") => \A r \in DOMAIN heap : heap'[r] = heap[r]]_vars

\* one move failed and another produced a new state, on inputs that were
\* left as they were
C19_Witness ==
    \E i \in 1..Len(calls) : \E j \in 1..Len(calls) :
        /\ calls[i].fn = "_apply_move"
        /\ calls[i].ret = 0
        /\ calls[j].fn = "_apply_move"
        /\ calls[j].ret # 0
        /\ heap[calls[j].ret] # calls[j].before
        /\ heap[calls[i].ref] = calls[i].before
        /\ heap[calls[j].ref] = calls[j].before

\* C20: the state transition fails closed.  _apply_move returns None for
\* every move that is not a legal move of the state it is applied to (not in
\* generate_all_moves of that state).
C20_FailsClosed ==
    \A i \in 1..Len(calls) :
        (/\ calls[i].fn = "_apply_move"
         /\ \A k \in 1..Len(generate_all_moves(calls[i].before)) :
               generate_all_moves(calls[i].before)[k] # calls[i].move[1])
            => calls[i].ret = 0

\* C14: foundation rule.  can_place_on_foundation is true exactly when the pile
\* is empty and the card is a 7 (up) or a 6 (down), or the pile is not empty,
\* the card has the suit of its top card and the rank just above (up) or just
\* below (down) the top card's; nothing goes on an up pile topped by K or a
\* down pile topped by A.
C14_FoundationRule ==
    \A i \in 1..Len(calls) :
        calls[i].fn = "can_place_on_foundation" =>
            LET card == calls[i].args[1]
                up == calls[i].args[2] = "up"
                pile == calls[i].args[3]
                top == pile[Len(pile)]
            IN  /\ calls[i].ret <=>
                      \/ pile = <<>> /\ card.rank = (IF up THEN "7" ELSE "6")
                      \/ /\ pile # <<>>
                         /\ card.suit = top.suit
                         /\ numeric_rank(card) = numeric_rank(top) + (IF up THEN 1 ELSE -1)
                /\ (pile # <<>> /\ up /\ top.rank = "K") => ~calls[i].ret
                /\ (pile # <<>> /\ ~up /\ top.rank = "A") => ~calls[i].ret

\* a Q accepted on an up run 7..J of its suit
C14_Witness ==
    /\ calls # <<>>
    /\ calls[1].fn = "can_place_on_foundation"
    /\ calls[1].args[2] = "up"
    /\ Len(calls[1].args[3]) = 5
    /\ calls[1].args[1].rank = "Q"
    /\ calls[1].ret

C16_SequenceRule ==
    \A i \in 1..Len(calls) :
        calls[i].fn = "can_place_sequence_on_tableau" =>
            LET sequence == calls[i].args[1]
                target_card == calls[i].args[2]
                target_column_empty == calls[i].args[3]
            IN  calls[i].ret <=>
                    /\ sequence # <<>>
                    /\ can_place_on_tableau(sequence[1], target_card, target_column_empty,
                                            "None")
                    /\ \A k \in 2..Len(sequence) :
                          /\ color(sequence[k]) # color(sequence[k - 1])
                          /\ numeric_rank(sequence[k]) = numeric_rank(sequence[k - 1]) - 1

\* a run of three cards accepted on an empty column
C16_Witness ==
    /\ calls # <<>>
    /\ calls[1].fn = "can_place_sequence_on_tableau"
    /\ Len(calls[1].args[1]) = 3
    /\ calls[1].args[3]
    /\ calls[1].ret

\* C17: get_column_type is None for an empty column and otherwise king, ace or
\* traditional by the rank of the card at index 0 alone.
C17_ColumnType ==
    \A i \in 1..Len(calls) :
        calls[i].fn = "get_column_type" =>
            LET column == calls[i].args[1]
            IN  calls[i].ret =
                    IF column = <<>> THEN "None"
                    ELSE CASE column[1].rank = "K" -> "king"
                           [] column[1].rank = "A" -> "ace"
                           [] OTHER -> "traditional"

\* a column with a 7 at the bottom and a K above it is traditional
C17_Witness ==
    /\ calls # <<>>
    /\ calls[1].fn = "get_column_type"
    /\ Len(calls[1].args[1]) = 2
    /\ calls[1].args[1][1].rank = "7"
    /\ calls[1].args[1][2].rank = "K"
    /\ calls[1].ret = "traditional"

(***************************************************************************)
(* GameState.create_new_game (game_state.py) and the game played from a     *)
(* fresh deal.  random.shuffle is a choice among the orders below.          *)
(***************************************************************************)
\* [Card(r, s) for s in suits for r in ranks]
new_deck ==
    [i \in 1..52 |-> Card(ranks[((i - 1) % 13) + 1], suits[((i - 1) \div 13) + 1])]

mode_config ==
    [classic |-> [pockets |-> 1, all_up |-> TRUE, face_down |-> 0],
     classic_double |-> [pockets |-> 2, all_up |-> TRUE, face_down |-> 0],
     hidden |-> [pockets |-> 1, all_up |-> FALSE, face_down |-> 21],
     hidden_double |-> [pockets |-> 2, all_up |-> FALSE, face_down |-> 21]]

Modes == DOMAIN mode_config

\* the cards deck.pop() hands to column col_idx, bottom card first: the
\* columns before it took col_idx * (col_idx + 1) / 2 cards from the end
dealt_column(shuffled, col_idx) ==
    [k \in 1..(col_idx + 1) |->
        shuffled[Len(shuffled) - ((col_idx * (col_idx + 1)) \div 2) - (k - 1)]]

\* fault: the card dealt to the waste stays in the stock as well
deal_stock_with_waste_card(rest) == rest

\* stock = deck[:-1] if len(deck) > 1 else []
deal_stock(rest) == IF Len(rest) > 1 THEN DropLast(rest, 1) ELSE <<>>

\* waste = [deck[-1]] if deck else []
deal_waste(rest) == IF rest # <<>> THEN <<Last(rest)>> ELSE <<>>

\* types.append(...), decided by col[0]
dealt_type(col) ==
    IF col = <<>> THEN "None"
    ELSE IF col[1].rank = "K" THEN "king"
    ELSE IF col[1].rank = "A" THEN "ace"
    ELSE "traditional"

create_new_game(mode, shuffled) ==
    LET tableau == [col_idx \in Cols |-> dealt_column(shuffled, col_idx)]
        rest == SubSeq(shuffled, 1, Len(shuffled) - 28)
        all_up == mode_config[mode].all_up
    IN  [tableau |-> tableau,
         stock |-> deal_stock(rest),
         waste |-> deal_waste(rest),
         pocket1 |-> None,
         pocket2 |-> IF mode_config[mode].pockets = 2 THEN None ELSE NA,
         foundations |-> empty_foundations,
         column_state |->
            [types |-> [col_idx \in Cols |-> dealt_type(tableau[col_idx])],
             faceUpCounts |->
                [col_idx \in Cols |->
                    IF all_up THEN Len(tableau[col_idx])
                    ELSE Max(1, Len(tableau[col_idx]) - col_idx)],
             faceDownCounts |-> [col_idx \in Cols |-> IF all_up THEN 0 ELSE col_idx]]]

\* an order of the deck with the cards of fixed at their positions and every
\* other card in the order of new_deck
arranged(fixed) ==
    LET taken == {fixed[p] : p \in DOMAIN fixed}
        others == SelectSeq(new_deck, LAMBDA card : card \notin taken)
    IN  [i \in 1..52 |->
            IF i \in DOMAIN fixed THEN fixed[i]
            ELSE others[i - Cardinality({p \in DOMAIN fixed : p < i})]]

\* 7h on the waste, 8h alone in column 0, 8s on top of column 1 (over Ks),
\* Ad at the bottom of column 2, Kc first in the stock
OpenSevenShuffle ==
    arranged((24 :> C("7", "h")) @@ (52 :> C("8", "h")) @@ (51 :> C("K", "s"))
             @@ (50 :> C("8", "s")) @@ (49 :> C("A", "d")) @@ (1 :> C("K", "c")))

\* Kc on the waste, 7h alone in column 0, the run 8s 7d in column 1, 9h on
\* top of column 2
RunShuffle ==
    arranged((24 :> C("K", "c")) @@ (52 :> C("7", "h")) @@ (51 :> C("8", "s"))
             @@ (50 :> C("7", "d")) @@ (47 :> C("9", "h")))

\* 7h alone in column 0, Jh 10s 9h in column 2, and on top of columns 3 to 6
\* the cards 10c, Qc, 6c, 8c
BuriedRunShuffle ==
    arranged((52 :> C("7", "h")) @@ (49 :> C("J", "h")) @@ (48 :> C("10", "s"))
             @@ (47 :> C("9", "h")) @@ (43 :> C("10", "c")) @@ (38 :> C("Q", "c"))
             @@ (32 :> C("6", "c")) @@ (25 :> C("8", "c")))

Shuffles == {OpenSevenShuffle, RunShuffle, BuriedRunShuffle}

\* bound of the model: the number of moves played from a deal
MaxDealMoves == 3

DealInit ==
    /\ initial_state \in {create_new_game(mode, shuffled) : mode \in Modes, shuffled \in Shuffles}
    /\ state = initial_state
    /\ pc = "deal"
    /\ max_nodes = DefaultMaxNodes
    /\ max_time_ms = DefaultMaxTimeMs
    /\ IdleSolver

\* the first moves of a game: the 23 cards of the stock outlast them, so the
\* waste is not recycled
DealNext ==
    /\ pc = "deal"
    /\ played < MaxDealMoves
    /\ (ToFoundation \/ ToTableau \/ ToPocket \/ FromPocket \/ DrawStock)

DealSpec == DealInit /\ [][DealNext]_vars

(***************************************************************************)
(* DifficultyAnalyzer (difficulty.py).  The floats of the scoring are       *)
(* decimal numbers with one digit after the point and are held in tenths:   *)
(* a branching factor of 2.5 is 25, a score of 40.0 is 400.  Every          *)
(* coefficient of the formula is carried in the same unit.                  *)
(***************************************************************************)
\* class attributes EASY_MAX = 40.0 and MODERATE_MAX = 80.0
EASY_MAX == 40
MODERATE_MAX == 80

\* bounds of the model: the arguments tried
MaxSolutionMoves == 5
MaxDeadEnds == 3
MaxBranchingTenths == 35
MaxAccessibility == 3
MaxScoreTenths == 1000

\* fault: more choices raise the score
score_rewarding_choices(solution_moves, n_dead_ends, branching_factor, starter_accessibility) ==
    solution_moves * 3 + n_dead_ends * 20 + Min(branching_factor, 30) * 20
    + starter_accessibility * 50

\* solution_moves * 0.3 + dead_ends * 2.0 + (3.0 - min(branching_factor, 3.0)) * 20
\* + starter_accessibility * 5, in tenths
calculate_difficulty_score(solution_moves, n_dead_ends, branching_factor, starter_accessibility) ==
    solution_moves * 3 + n_dead_ends * 20 + (30 - Min(branching_factor, 30)) * 20
    + starter_accessibility * 50

\* fault: the thresholds themselves belong to the tier above
tier_below_threshold(difficulty_score) ==
    IF difficulty_score < EASY_MAX * 10 THEN "easy"
    ELSE IF difficulty_score < MODERATE_MAX * 10 THEN "moderate"
    ELSE "hard"

determine_tier(difficulty_score) ==
    IF difficulty_score <= EASY_MAX * 10 THEN "easy"
    ELSE IF difficulty_score <= MODERATE_MAX * 10 THEN "moderate"
    ELSE "hard"

SolutionMoves == 0..MaxSolutionMoves
DeadEnds == 0..MaxDeadEnds
BranchingFactors == 0..MaxBranchingTenths
Accessibilities == 0..MaxAccessibility
Scores == 0..MaxScoreTenths

CallCalculateDifficultyScore ==
    /\ calls = <<>>
    /\ \E solution_moves \in SolutionMoves : \E n_dead_ends \in DeadEnds :
          \E branching_factor \in BranchingFactors :
             \E starter_accessibility \in Accessibilities :
                calls' = << RuleCall("calculate_difficulty_score",
                                     <<solution_moves, n_dead_ends, branching_factor,
                                       starter_accessibility>>,
                                     calculate_difficulty_score(
                                         solution_moves, n_dead_ends, branching_factor,
                                         starter_accessibility)) >>
    /\ IdleGame

CallDetermineTier ==
    /\ calls = <<>>
    /\ \E difficulty_score \in Scores :
          calls' = << RuleCall("determine_tier", <<difficulty_score>>,
                               determine_tier(difficulty_score)) >>
    /\ IdleGame

\* the largest member of a set of naturals, 0 for the empty set (max_depth
\* starts at 0)
deepest(depths) == IF depths = {} THEN 0 ELSE CHOOSE d \in depths : \A e \in depths : e <= d

\* col.index(card): the first position of the card, counted from 0
index(col, card) ==
    (CHOOSE p \in 1..Len(col) : col[p] = card /\ \A q \in 1..(p - 1) : col[q] # card) - 1

\* every 6 and 7 of the tableau, whatever its face; the solution path is not read
analyze_starter_accessibility(start, path) ==
    LET starters == {<<col_idx, start.tableau[col_idx][p]>> :
                        <<col_idx, p>> \in {cp \in Cols \X (1..TotalCards) :
                            /\ cp[2] <= Len(start.tableau[cp[1]])
                            /\ start.tableau[cp[1]][cp[2]].rank \in {"6", "7"}}}
    IN  deepest({Len(start.tableau[st[1]]) - index(start.tableau[st[1]], st[2]) - 1 :
                    st \in starters})

\* nodes_explored / solution_moves in tenths, 0.0 for no move
calculate_branching_factor(n_nodes_explored, solution_moves) ==
    IF solution_moves = 0 THEN 0 ELSE (n_nodes_explored * 10) \div solution_moves

\* the 6s and 7s from position faceDownCounts on
_estimate_starter_accessibility(start) ==
    deepest({Len(start.tableau[cp[1]]) - (cp[2] - 1) - 1 :
                cp \in {cp \in Cols \X (1..TotalCards) :
                    /\ cp[2] > start.column_state.faceDownCounts[cp[1]]
                    /\ cp[2] <= Len(start.tableau[cp[1]])
                    /\ start.tableau[cp[1]][cp[2]].rank \in {"6", "7"}}})

\* Optional[List]: solution_path = None is [given |-> FALSE], a list is
\* [given |-> TRUE, moves |-> the list]
NoPath == [given |-> FALSE, moves |-> <<>>]
PathOf(moves) == [given |-> TRUE, moves |-> moves]

\* "if solution_path:" is false for None and for the empty list
analyze_solution(start, solution_moves, n_nodes_explored, n_dead_ends, solve_time_ms, path) ==
    LET starter_accessibility ==
            IF path.given /\ path.moves # <<>>
            THEN analyze_starter_accessibility(start, path.moves)
            ELSE _estimate_starter_accessibility(start)
        branching_factor == calculate_branching_factor(n_nodes_explored, solution_moves)
        difficulty_score == calculate_difficulty_score(solution_moves, n_dead_ends,
                                                       branching_factor, starter_accessibility)
    IN  [solution_moves |-> solution_moves,
         nodes_explored |-> n_nodes_explored,
         dead_ends |-> n_dead_ends,
         solve_time_ms |-> solve_time_ms,
         branching_factor |-> branching_factor,
         starter_accessibility |-> starter_accessibility,
         difficulty_score |-> difficulty_score,
         recommended_tier |-> determine_tier(difficulty_score)]

\* the deals analysed, and the solution lengths whose quotient has one digit
\* after the point
AnalysedDeals == {create_new_game(mode, shuffled) : mode \in Modes, shuffled \in Shuffles}
ExactSolutionMoves == {m \in SolutionMoves : m = 0 \/ 10 % m = 0}
SolutionPaths(start) ==
    {NoPath, PathOf(<<>>)} \cup {PathOf(SubSeq(moves, 1, 1)) : moves \in {generate_all_moves(start)}}

CallAnalyzeSolution ==
    /\ calls = <<>>
    /\ \E start \in AnalysedDeals : \E path \in SolutionPaths(start) :
          \E solution_moves \in ExactSolutionMoves : \E n_nodes_explored \in 1..MaxSmallNodes :
             \E n_dead_ends \in DeadEnds :
                calls' = << RuleCall("analyze_solution",
                                     <<start, solution_moves, n_nodes_explored, n_dead_ends, 0,
                                       path>>,
                                     analyze_solution(start, solution_moves, n_nodes_explored,
                                                      n_dead_ends, 0, path)) >>
    /\ IdleGame

DifficultyNext == CallCalculateDifficultyScore \/ CallDetermineTier \/ CallAnalyzeSolution

\* one call of a DifficultyAnalyzer function per behaviour
DifficultySpec == RuleInit /\ [][DifficultyNext]_vars

tier_rank(tier) == IF tier = "easy" THEN 1 ELSE IF tier = "moderate" THEN 2 ELSE 3

\* C22: tier mapping.  determine_tier returns easy for every score <= 40,
\* moderate for every score > 40 and <= 80, hard for every score > 80; a
\* higher score never gets a lower tier.
C22_TierMapping ==
    \A i \in 1..Len(calls) :
        calls[i].fn = "determine_tier" =>
            LET score == calls[i].args[1]
                tier == calls[i].ret
            IN  /\ score <= 400 => tier = "easy"
                /\ (score > 400 /\ score <= 800) => tier = "moderate"
                /\ score > 800 => tier = "hard"
                /\ \A higher \in Scores :
                      higher >= score => tier_rank(determine_tier(higher)) >= tier_rank(tier)

\* the score 40.0 itself, which is still easy
C22_Witness ==
    /\ calls # <<>>
    /\ calls[1].fn = "determine_tier"
    /\ calls[1].args[1] = 400
    /\ calls[1].ret = "easy"
    /\ determine_tier(401) = "moderate"

offered(s, move_type) ==
    Len(SelectSeq(generate_all_moves(s), LAMBDA move : move.move_type = move_type))

pocket_of(s, pocket_num) == IF pocket_num = 1 THEN s.pocket1 ELSE s.pocket2

\* the generated pocket moves of a state respect its pockets
pockets_respected(s) ==
    /\ s.pocket1 \in deck \cup {None, NA}
    /\ s.pocket2 \in deck \cup {None, NA}
    /\ \A moves \in {generate_all_moves(s)} : \A i \in 1..Len(moves) :
          LET move == moves[i]
          IN  /\ move.move_type = "to_pocket" =>
                    /\ move.source.type = "waste"
                    /\ s.waste # <<>>
                    /\ move.cards = <<Last(s.waste)>>
                    /\ move.target.type = "pocket"
                    /\ pocket_of(s, move.target.pocket_num) = None
              /\ move.source.type = "pocket" => is_card(pocket_of(s, move.source.pocket_num))
              /\ move.target.type = "pocket" => pocket_of(s, move.target.pocket_num) # NA

\* C27: pocket discipline.  Each pocket holds at most one card; a TO_POCKET
\* move is generated only for the waste top card and only into an available,
\* empty pocket, so an occupied pocket is never overwritten; an unavailable
\* ("N/A") pocket stays unavailable and is never the source or the target of
\* a move.
C27_PocketDiscipline ==
    [][/\ pockets_respected(state)
       /\ pockets_respected(state')
       /\ \A pocket_num \in {1, 2} :
             /\ (pocket_of(state, pocket_num) = NA) <=> (pocket_of(state', pocket_num) = NA)
             /\ is_card(pocket_of(state, pocket_num)) =>
                   pocket_of(state', pocket_num) \in {pocket_of(state, pocket_num), None}]_vars

\* pocket 1 occupied, pocket 2 unavailable, a card on the waste: no TO_POCKET
\* move is offered
C27_Witness ==
    /\ pc = "play"
    /\ initial_state.pocket1 = None
    /\ is_card(state.pocket1)
    /\ state.pocket2 = NA
    /\ state.waste # <<>>
    /\ offered(state, "to_pocket") = 0
    /\ offered(initial_state, "to_pocket") = 1

\* the ranks a foundation pile must show, bottom card first: 7, 8, ... on an
\* up pile and 6, 5, ... on a down pile, in the suit of its first card
pile_is_run(foundation_type, pile) ==
    \A k \in 1..Len(pile) :
        /\ pile[k].suit = pile[1].suit
        /\ numeric_rank(pile[k]) = IF foundation_type = "up" THEN 6 + k ELSE 7 - k

\* C26: foundation pile structure.  In every state reached from a deal with
\* empty foundations each up pile is empty or the run 7, 8, ... of one suit,
\* each down pile is empty or the run 6, 5, ... of one suit, and no suit
\* occupies two piles of the same family.
C26_FoundationPiles ==
    pc = "deal" =>
        \A foundation_type \in {"up", "down"} :
            /\ \A suit \in SuitSet :
                  pile_is_run(foundation_type, state.foundations[foundation_type][suit])
            /\ \A s1 \in SuitSet : \A s2 \in SuitSet :
                  (/\ s1 # s2
                   /\ state.foundations[foundation_type][s1] # <<>>
                   /\ state.foundations[foundation_type][s2] # <<>>)
                      => state.foundations[foundation_type][s1][1].suit
                            # state.foundations[foundation_type][s2][1].suit

\* 7h and 8h played from the deal onto the up pile kept under the key d
C26_Witness ==
    /\ pc = "deal"
    /\ initial_state.foundations = empty_foundations
    /\ state.foundations.up.d = <<C("7", "h"), C("8", "h")>>
    /\ state.foundations.up.h = <<>>

\* C28: reveal rule.  Across an applied move the faceDownCounts entry of a
\* column decreases by exactly one when the move removed the column's last
\* face-up card and a face-down card remains in it, and is unchanged in every
\* other case: when the removed card lay over other face-up cards, and for
\* every column the move took no card from.
C28_RevealRule ==
    [][pc = "deal" =>
          \A c \in Cols :
             LET face_down == state.column_state.faceDownCounts[c]
                 left == Len(state'.tableau[c])
                 last_face_up_removed ==
                     /\ left < Len(state.tableau[c])
                     /\ face_down > 0
                     /\ left > 0
                     /\ left <= face_down
             IN  state'.column_state.faceDownCounts[c]
                    = IF last_face_up_removed THEN face_down - 1 ELSE face_down]_vars

\* C29: face-count consistency.  In every state reached from a deal,
\* faceUpCounts[i] + faceDownCounts[i] is the number of cards of column i,
\* also after cards were removed from the column or appended to it.
C29_FaceCounts ==
    pc = "deal" =>
        \A c \in Cols :
            state.column_state.faceUpCounts[c] + state.column_state.faceDownCounts[c]
                = Len(state.tableau[c])

\* C30: column-type bookkeeping.  In every reachable state types[i] is
\* get_column_type(tableau[i]): None for an empty column, otherwise king, ace
\* or traditional by the bottom card.
C30_ColumnTypes ==
    pc = "deal" =>
        \A c \in Cols : state.column_state.types[c] = get_column_type(state.tableau[c])

\* the generated moves of a state, as a set
moves_of(s) ==
    UNION {{moves[i] : i \in 1..Len(moves)} : moves \in {generate_all_moves(s)}}

\* the top card of a column, None for an empty column
top_of(col) == IF col # <<>> THEN Last(col) ELSE None

\* C31: generator completeness for tableau moves.  In a game dealt all
\* face-up, for every non-empty column and every suffix of it that is a legal
\* run and may legally land on another column, the generated moves hold the
\* TO_TABLEAU move of exactly that suffix to that column.
C31_TableauComplete ==
    (pc = "deal" /\ initial_state.column_state.faceDownCounts = NoFaceDown) =>
        \A moves \in {moves_of(state)} :
            \A c \in Cols : \A t \in Cols \ {c} : \A k \in 1..Len(state.tableau[c]) :
                can_place_sequence_on_tableau(LastN(state.tableau[c], k),
                                              top_of(state.tableau[t]),
                                              Len(state.tableau[t]) = 0)
                    => Move("to_tableau", [type |-> "tableau", column |-> c],
                            [type |-> "tableau", column |-> t],
                            LastN(state.tableau[c], k)) \in moves

\* the cards create_new_game dealt face-down that have not been the top card
\* of their column, in a state at most one move after the deal
still_hidden(dealt, s) ==
    {dealt.tableau[c][p] : <<c, p>> \in
        {cp \in Cols \X (1..7) :
            /\ cp[2] <= dealt.column_state.faceDownCounts[cp[1]]
            /\ Len(s.tableau[cp[1]]) > cp[2]}}

\* C38: hidden cards stay hidden.  In a hidden mode a card dealt face-down is
\* never among the cards of a generated move before it has become the top card
\* of its column (stated for the deal and the states one move after it, where
\* the cards that have been on top are known from the two states).
C38_HiddenStayHidden ==
    (pc = "deal" /\ played <= 1) =>
        \A move \in moves_of(state) :
            \A i \in 1..Len(move.cards) :
                move.cards[i] \notin still_hidden(initial_state, state)

\* the cards a move names are the top cards of its source, in order
names_top_cards(s, move) ==
    IF move.source.type = "waste"
    THEN s.waste # <<>> /\ move.cards = <<Last(s.waste)>>
    ELSE IF move.source.type = "pocket"
    THEN /\ is_card(pocket_of(s, move.source.pocket_num))
         /\ move.cards = <<pocket_of(s, move.source.pocket_num)>>
    ELSE /\ move.source.type = "tableau"
         /\ move.cards # <<>>
         /\ Len(move.cards) <= Len(s.tableau[move.source.column])
         /\ move.cards = LastN(s.tableau[move.source.column], Len(move.cards))

\* the target of a move accepts its cards
target_accepts(s, move) ==
    IF move.target.type = "foundation"
    THEN /\ Len(move.cards) = 1
         /\ can_place_on_foundation(
                move.cards[1], move.target.foundation_type,
                s.foundations[move.target.foundation_type][move.target.suit])
    ELSE IF move.target.type = "tableau"
    THEN can_place_sequence_on_tableau(move.cards, top_of(s.tableau[move.target.column]),
                                       Len(s.tableau[move.target.column]) = 0)
    ELSE /\ move.target.type = "pocket"
         /\ Len(move.cards) = 1
         /\ pocket_of(s, move.target.pocket_num) = None

\* C32: generator soundness.  Every generated move that carries cards names
\* exactly the top cards of its source zone in order (waste top, the pocket's
\* card, the top k cards of the source column), its target accepts them under
\* the foundation rule or the tableau / sequence rule, source and target are
\* different zones, and only a single top card goes to a foundation.
C32_GeneratorSound ==
    pc = "deal" =>
        \A move \in moves_of(state) :
            move.move_type \in {"to_foundation", "to_tableau", "to_pocket", "from_pocket"} =>
                /\ names_top_cards(state, move)
                /\ target_accepts(state, move)
                /\ move.source.type # move.target.type
                      \/ (move.source.type = "tableau"
                          /\ move.source.column # move.target.column)

\* a state, some moves into a game, that offers a run of several cards to
\* another column, a card to a foundation and a pocket card to a column
C32_Witness ==
    /\ pc = "deal"
    /\ played > 0
    /\ \E move \in moves_of(state) : move.move_type = "to_tableau" /\ Len(move.cards) > 1
    /\ \E move \in moves_of(state) : move.move_type = "to_foundation"
    /\ \E move \in moves_of(state) : move.move_type = "from_pocket"

\* C33: BFS order.  During solve the path lengths of successively dequeued
\* entries are non-decreasing (none is shorter than max_depth, the longest
\* dequeued before it), the queue is served first in, first out, and every
\* entry enqueued while a state of depth d is expanded has path length d + 1.
C33_BfsOrder ==
    [][Dequeues =>
          /\ Len(Head(queue).path) >= max_depth
          /\ pc' = "loop" =>
                /\ Len(queue') >= Len(queue) - 1
                /\ \A i \in 1..(Len(queue) - 1) : queue'[i] = queue[i + 1]
                /\ \A i \in Len(queue)..Len(queue') :
                      Len(queue'[i].path) = Len(Head(queue).path) + 1]_vars

\* a state of depth 1 was dequeued and entries of depth 2 wait behind another
\* entry
C33_Witness ==
    /\ pc = "loop"
    /\ max_depth >= 1
    /\ Len(queue) >= 2
    /\ Len(Head(queue).path) >= max_depth
    /\ Len(Last(queue).path) = 2

\* the fingerprints of the queued states are pairwise distinct members of
\* visited, and nodes_explored counts visited
visited_holds(q, v, n) ==
    /\ \A i \in 1..Len(q) : get_fingerprint(q[i].state) \in v
    /\ \A i \in 1..Len(q) : \A j \in 1..Len(q) :
          i # j => get_fingerprint(q[i].state) # get_fingerprint(q[j].state)
    /\ n = Cardinality(v)

\* C34: visited-set discipline.  At every point of the search the
\* fingerprints of the states enqueued so far (the start included) are
\* pairwise distinct and are exactly the members of visited, so that no
\* fingerprint is enqueued twice, and nodes_explored is the size of visited.
C34_VisitedDiscipline ==
    [][/\ (pc = "start" /\ pc' = "loop") =>
             /\ visited' = {get_fingerprint(initial_state)}
             /\ visited_holds(queue', visited', nodes_explored')
       /\ (pc = "loop" /\ pc' = "loop") =>
             /\ visited_holds(queue', visited', nodes_explored')
             /\ \A i \in Len(queue)..Len(queue') :
                   get_fingerprint(queue'[i].state) \notin visited
             /\ visited' = visited \cup {get_fingerprint(queue'[i].state) :
                                           i \in Len(queue)..Len(queue')}]_vars

\* a search that has enqueued several states
C34_Witness ==
    /\ pc = "loop"
    /\ Len(queue) >= 2
    /\ Cardinality(visited) >= 3
    /\ nodes_explored = Cardinality(visited)
    /\ get_fingerprint(initial_state) \in visited

\* C35: dead-end counting.  dead_ends grows by one exactly when a dequeued
\* state has no generated move at all, never for a state with a non-empty
\* stock, and the value of a result is the count reached when solve returns.
C35_DeadEndCount ==
    [][/\ (pc = "start" /\ pc' = "loop") => dead_ends' = 0
       /\ (Dequeues /\ pc' = "loop") =>
             /\ dead_ends' = dead_ends
                   + (IF generate_all_moves(Head(queue).state) = <<>> THEN 1 ELSE 0)
             /\ Head(queue).state.stock # <<>> => dead_ends' = dead_ends
             /\ \A i \in 1..Len(queue') : queue'[i] # Head(queue)
       /\ (pc \in {"start", "loop"} /\ pc' = "done") => result'[1].dead_ends = dead_ends]_vars

\* a search that ended with a counted dead end
C35_Witness ==
    /\ pc = "done"
    /\ exit = "exhausted"
    /\ result[1].dead_ends >= 1
    /\ generate_all_moves(initial_state) # <<>>

\* C36: depth metric.  A winnable result has max_depth equal to the number of
\* moves of its solution; a result that is not winnable has the path length of
\* the last dequeued state (0 if none was dequeued).
C36_DepthMetric ==
    [][/\ (pc = "start" /\ pc' = "loop") => max_depth' = 0
       /\ (Dequeues /\ pc' = "loop") => max_depth' = Len(Head(queue).path)
       /\ (pc \in {"start", "loop"} /\ pc' = "done") =>
             IF result'[1].winnable
             THEN result'[1].max_depth = Len(result'[1].solution)
             ELSE result'[1].max_depth = max_depth]_vars

\* a solution of several moves, and its depth
C36_Witness ==
    /\ pc = "done"
    /\ result[1].winnable
    /\ Len(result[1].solution) >= 2
    /\ result[1].max_depth = Len(result[1].solution)

\* the cards of the stock and of the waste
stock_and_waste(s) ==
    {s.stock[i] : i \in 1..Len(s.stock)} \cup {s.waste[i] : i \in 1..Len(s.waste)}

\* C37: irreversible progress.  Across every generated and applied move each
\* foundation pile keeps its cards (it is a prefix of the pile after the
\* move) and no card enters stock or waste from elsewhere; hence the number of
\* foundation cards never decreases and the number of cards in stock plus
\* waste never increases.
C37_IrreversibleProgress ==
    [][/\ \A foundation_type \in {"up", "down"} : \A suit \in SuitSet :
             /\ Len(state.foundations[foundation_type][suit])
                   <= Len(state'.foundations[foundation_type][suit])
             /\ \A k \in 1..Len(state.foundations[foundation_type][suit]) :
                   state'.foundations[foundation_type][suit][k]
                      = state.foundations[foundation_type][suit][k]
       /\ stock_and_waste(state') \subseteq stock_and_waste(state)
       /\ foundation_count(state') >= foundation_count(state)
       /\ Len(state'.stock) + Len(state'.waste) <= Len(state.stock) + Len(state.waste)]_vars

\* a game in which a card went to a foundation, the stock and waste lost a
\* card, and a pocket holds a card
C37_Witness ==
    /\ pc = "play"
    /\ foundation_count(state) > foundation_count(initial_state)
    /\ Len(state.stock) + Len(state.waste) < Len(initial_state.stock) + Len(initial_state.waste)
    /\ (state.pocket1 # None \/ state.pocket2 # None)

\* C39: starter accessibility.  The starter_accessibility analyze_solution
\* reports is the largest number of cards stacked above a 6 or a 7 anywhere in
\* the tableau of the initial state, face-up or face-down, and 0 when the
\* tableau holds no such card, whatever is supplied as the solution path.
C39_StarterAccessibility ==
    \A n \in 1..Len(calls) :
        calls[n].fn = "analyze_solution" =>
            \A start \in {calls[n].args[1]} :
                \A above \in {{Len(start.tableau[cp[1]]) - cp[2] :
                                 cp \in {cp \in Cols \X (1..TotalCards) :
                                     /\ cp[2] <= Len(start.tableau[cp[1]])
                                     /\ start.tableau[cp[1]][cp[2]].rank \in {"6", "7"}}}} :
                    /\ \A a \in above : a <= calls[n].ret.starter_accessibility
                    /\ calls[n].ret.starter_accessibility \in above \cup {0}
                    /\ above = {} => calls[n].ret.starter_accessibility = 0

\* C40: independent searches.  An invocation of solve that took turns with an
\* invocation on a separate initial state returns the same winnable, solution,
\* nodes_explored and dead_ends as the invocation on its initial state did
\* alone.
C40_IndependentSearches ==
    (/\ pc = "done"
     /\ prev # <<>>
     /\ suspended # <<>>
     /\ suspended[1].pc # "start"
     /\ initial_state = prev[1].initial_state)
        => /\ result[1].winnable = prev[1].result.winnable
           /\ result[1].solution = prev[1].result.solution
           /\ result[1].nodes_explored = prev[1].result.nodes_explored
           /\ result[1].dead_ends = prev[1].result.dead_ends

====
